---- MODULE Spec2Model ----
(***************************************************************************)
(* Model of react/features/e2ee/components/E2EESection.js: a React class   *)
(* component with local state {enabled, expand}, derived from the redux    *)
(* props on every render pass, and three event handlers.                   *)
(*                                                                         *)
(* One step of the model is either one event (a handler run, or a change   *)
(* of the redux slice the component is connected to) or the render pass    *)
(* React runs after it: flush the queued setState updates, apply           *)
(* getDerivedStateFromProps, call render().  React calls the static        *)
(* getDerivedStateFromProps before every render, whether a new prop or a   *)
(* setState caused it.  The store, the analytics sink and the translation  *)
(* function are outside the component: the store changes on its own, and   *)
(* the calls made to the sinks are recorded in trace.                      *)
(***************************************************************************)
EXTENDS Naturals, Sequences, FiniteSets, TLC

VARIABLES
    redux,      \* state['features/e2ee'] of the store
    props,      \* the props mapStateToProps last handed to the component
    t,          \* props.t('dialog.e2eeDescription'): the description string
    state,      \* this.state
    pending,    \* partial state queued by setState, not yet flushed
    phase,      \* "constructed" | "update" (render pass due) | "idle"
    view,       \* what the last render() returned
    trace,      \* the calls made so far: setState, sendAnalytics, dispatch
    lastEvent,  \* the event handled last
    lastKey,    \* the last key event object handed to _onExpandKeyPress
    toggledTo   \* value of the last toggle not yet followed by a store change

vars == <<redux, props, t, state, pending, phase, view, trace, lastEvent,
          lastKey, toggledTo>>

----------------------------------------------------------------------------
(* Bounds *)

\* the calls recorded in trace before handlers stop being invoked
MaxTrace == 7
\* descriptions are at most this much longer than the truncation length
MaxExtra == 2

(* Program constants *)

\* description.substring(0, 100)
TruncateLen == 100

----------------------------------------------------------------------------
(* Values *)

Keys == {" ", "Enter", "Spacebar", "Tab", "a"}

NoKey == [key |-> "", defaultPrevented |-> FALSE]

NoToggle == "none"

String(b) == IF b THEN "true" ELSE "false"

Min(a, b) == IF a < b THEN a ELSE b

\* a description of n characters; the characters differ along the string
MakeDescription(n) == [i \in 1..n |-> i % 7]

DescriptionLengths ==
    {0, 1, TruncateLen - 1, TruncateLen, TruncateLen + 1, TruncateLen + MaxExtra}

\* String.prototype.substring(start, end) for 0 <= start <= end
substring(s, start, end) == SubSeq(s, start + 1, Min(end, Len(s)))

\* the object a partial state or a derived state is merged into
Merge(st, partial) ==
    [k \in DOMAIN st |-> IF k \in DOMAIN partial THEN partial[k] ELSE st[k]]

\* null, as returned by getDerivedStateFromProps
Null == <<>>

----------------------------------------------------------------------------
(* The component *)

mapStateToProps(s) ==
    [_enabled |-> s.enabled, _everyoneSupportE2EE |-> s.everyoneSupportE2EE]

\* variants of getDerivedStateFromProps: one that never derives anything, one
\* that only derives on a change to true, one that resets the whole state
getDerivedStateFromProps_never(p, st) == Null

getDerivedStateFromProps_onlyOff(p, st) ==
    IF p._enabled # st.enabled /\ ~p._enabled
    THEN [enabled |-> p._enabled]
    ELSE Null

getDerivedStateFromProps_reset(p, st) ==
    IF p._enabled # st.enabled
    THEN [enabled |-> p._enabled, expand |-> FALSE]
    ELSE Null

getDerivedStateFromProps(p, st) ==
    IF p._enabled # st.enabled
    THEN [enabled |-> p._enabled]
    ELSE Null

constructor(p) == [enabled |-> FALSE, expand |-> FALSE]

NotRendered ==
    [rendered |-> FALSE, text |-> <<>>, readMore |-> FALSE,
     warning |-> FALSE, switchValue |-> FALSE]

\* variants of render: a truncation one character short, a warning shown when
\* everyone supports E2EE
render_shortTruncation(p, description, st) ==
    [rendered    |-> TRUE,
     text        |-> (IF st.expand THEN description ELSE <<>>)
                     \o (IF ~st.expand
                         THEN substring(description, 0, TruncateLen - 1)
                         ELSE <<>>),
     readMore    |-> ~st.expand,
     warning     |-> ~p._everyoneSupportE2EE,
     switchValue |-> st.enabled]

render_warningInverted(p, description, st) ==
    [rendered    |-> TRUE,
     text        |-> (IF st.expand THEN description ELSE <<>>)
                     \o (IF ~st.expand
                         THEN substring(description, 0, TruncateLen)
                         ELSE <<>>),
     readMore    |-> ~st.expand,
     warning     |-> p._everyoneSupportE2EE,
     switchValue |-> st.enabled]

render(p, description, st) ==
    [rendered    |-> TRUE,
     text        |-> (IF st.expand THEN description ELSE <<>>)
                     \o (IF ~st.expand
                         THEN substring(description, 0, TruncateLen)
                         ELSE <<>>),
     readMore    |-> ~st.expand,
     warning     |-> ~p._everyoneSupportE2EE,
     switchValue |-> st.enabled]

\* A handler runs on a context c = [state, pending, trace]: this.state, the
\* update queue and the calls made so far.
setState(c, partial) ==
    [c EXCEPT !.pending = partial @@ @,
              !.trace = Append(@, [kind |-> "setState", partial |-> partial])]

sendAnalytics(c, event) ==
    [c EXCEPT !.trace = Append(@, [kind |-> "analytics", event |-> event])]

dispatch(c, action) ==
    [c EXCEPT !.trace = Append(@, [kind |-> "dispatch", action |-> action])]

createE2EEEvent(name) == "e2ee." \o name

toggleE2EE(enabled) == [type |-> "TOGGLE_E2EE", enabled |-> enabled]

\* variant of _onExpand that flips the flag
_onExpand_flip(c) == setState(c, [expand |-> ~c.state.expand])

_onExpand(c) == setState(c, [expand |-> TRUE])

\* variant of _onExpandKeyPress that handles Enter only
_onExpandKeyPress_enterOnly(c, key) ==
    IF key = "Enter"
    THEN [c |-> _onExpand(c), defaultPrevented |-> TRUE]
    ELSE [c |-> c, defaultPrevented |-> FALSE]

\* returns the context and whether e.preventDefault() was called
_onExpandKeyPress(c, key) ==
    IF key = " " \/ key = "Enter"
    THEN [c |-> _onExpand(c), defaultPrevented |-> TRUE]
    ELSE [c |-> c, defaultPrevented |-> FALSE]

\* variant of _onToggle that dispatches before it reports to analytics
_onToggle_dispatchFirst(c) ==
    LET newValue == ~c.state.enabled
        c1 == setState(c, [enabled |-> newValue])
        c2 == dispatch(c1, toggleE2EE(newValue))
    IN  sendAnalytics(c2, createE2EEEvent("enabled." \o String(newValue)))

_onToggle(c) ==
    LET newValue == ~c.state.enabled
        c1 == setState(c, [enabled |-> newValue])
        c2 == sendAnalytics(c1, createE2EEEvent("enabled." \o String(newValue)))
    IN  dispatch(c2, toggleE2EE(newValue))

----------------------------------------------------------------------------
(* Steps *)

Context == [state |-> state, pending |-> pending, trace |-> trace]

Init ==
    /\ redux \in [enabled : BOOLEAN, everyoneSupportE2EE : BOOLEAN]
    /\ props = mapStateToProps(redux)
    /\ t \in {MakeDescription(n) : n \in DescriptionLengths}
    /\ state = constructor(props)
    /\ pending = Null
    /\ phase = "constructed"
    /\ view = NotRendered
    /\ trace = <<>>
    /\ lastEvent = "mount"
    /\ lastKey = NoKey
    /\ toggledTo = NoToggle

\* The render pass: the queued updates are merged into the state, the derived
\* state is merged into the result, and render() is called on it.
RenderPass ==
    /\ phase \in {"constructed", "update"}
    /\ LET flushed == Merge(state, pending)
           derived == Merge(flushed, getDerivedStateFromProps(props, flushed))
       IN  /\ state' = derived
           /\ view' = render(props, t, derived)
    /\ pending' = Null
    /\ phase' = "idle"
    /\ UNCHANGED <<redux, props, t, trace, lastEvent, lastKey, toggledTo>>

\* A click on the read-more span.
OnExpandClick ==
    /\ phase = "idle"
    /\ Len(trace) + 1 <= MaxTrace
    /\ LET c == _onExpand(Context)
       IN  /\ pending' = c.pending
           /\ trace' = c.trace
    /\ phase' = "update"
    /\ lastEvent' = "expand"
    /\ UNCHANGED <<redux, props, t, state, view, lastKey, toggledTo>>

\* A key press on the read-more span.
OnExpandKeyPress ==
    /\ phase = "idle"
    /\ Len(trace) + 1 <= MaxTrace
    /\ \E key \in Keys :
          LET r == _onExpandKeyPress(Context, key)
          IN  /\ pending' = r.c.pending
              /\ trace' = r.c.trace
              /\ lastKey' = [key |-> key, defaultPrevented |-> r.defaultPrevented]
              /\ phase' = IF r.c.pending # Null THEN "update" ELSE "idle"
    /\ lastEvent' = "keypress"
    /\ UNCHANGED <<redux, props, t, state, view, toggledTo>>

\* The switch's onValueChange.  The store is not part of the component: the
\* dispatched action may or may not have changed the slice by the time the
\* handler returns.
OnToggle ==
    /\ phase = "idle"
    /\ Len(trace) + 3 <= MaxTrace
    /\ LET c == _onToggle(Context)
       IN  /\ pending' = c.pending
           /\ trace' = c.trace
           /\ toggledTo' = String(c.pending.enabled)
           /\ \E applied \in BOOLEAN :
                 LET made == SubSeq(c.trace, Len(trace) + 1, Len(c.trace))
                     sent == SelectSeq(made, LAMBDA e : e.kind = "dispatch")
                 IN  redux' = IF applied /\ sent # <<>>
                              THEN [redux EXCEPT !.enabled = sent[1].action.enabled]
                              ELSE redux
    /\ props' = mapStateToProps(redux')
    /\ phase' = "update"
    /\ lastEvent' = "toggle"
    /\ UNCHANGED <<t, state, view, lastKey>>

\* The store's enabled flag is set by something else than this handler run.
StoreEnabled ==
    /\ phase = "idle"
    /\ \E b \in BOOLEAN : redux' = [redux EXCEPT !.enabled = b]
    /\ props' = mapStateToProps(redux')
    /\ phase' = "update"
    /\ lastEvent' = "storeEnabled"
    /\ toggledTo' = NoToggle
    /\ UNCHANGED <<t, state, pending, view, trace, lastKey>>

\* The store's everyoneSupportE2EE flag changes.
StoreEveryoneSupport ==
    /\ phase = "idle"
    /\ \E b \in BOOLEAN : redux' = [redux EXCEPT !.everyoneSupportE2EE = b]
    /\ props' = mapStateToProps(redux')
    /\ phase' = "update"
    /\ lastEvent' = "storeEveryoneSupport"
    /\ UNCHANGED <<t, state, pending, view, trace, lastKey, toggledTo>>

Next ==
    \/ RenderPass
    \/ OnExpandClick
    \/ OnExpandKeyPress
    \/ OnToggle
    \/ StoreEnabled
    \/ StoreEveryoneSupport

Spec == Init /\ [][Next]_vars

----------------------------------------------------------------------------
(* Properties *)

IsDispatch(e) == e.kind = "dispatch"
IsAnalytics(e) == e.kind = "analytics"
IsPort(e) == e.kind \in {"analytics", "dispatch"}
IsExpandCall(e) == e.kind = "setState" /\ "expand" \in DOMAIN e.partial

\* the analytics events and dispatches among the calls of a trace
Ports(tr) == SelectSeq(tr, IsPort)

\* the calls a step adds to the trace
Added == SubSeq(trace', Len(trace) + 1, Len(trace'))

\* steps, told apart by the event they record
ToggleStep == phase = "idle" /\ lastEvent' = "toggle"
ExpandStep == phase = "idle" /\ lastEvent' \in {"expand", "keypress"}
KeyStep == phase = "idle" /\ lastEvent' = "keypress"
StoreStep == phase = "idle" /\ lastEvent' \in {"storeEnabled", "storeEveryoneSupport"}
RenderStep == phase # "idle" /\ phase' = "idle"

\* C1: at every render the switch shows the most recent external enabled
\* value, except that renders after a local toggle and before the next
\* external update show the toggled value.
C1_SwitchShowsToggledValue ==
    phase = "idle" =>
        view.switchValue = (IF toggledTo # NoToggle
                            THEN toggledTo = "true"
                            ELSE props._enabled)

\* C2: the derivation runs before every render, also one caused by a local
\* state update, so at every render the local enabled value and the value
\* handed to the switch equal the external enabled prop.
C2_SwitchEqualsExternal ==
    phase = "idle" =>
        /\ state.enabled = props._enabled
        /\ view.switchValue = props._enabled

\* a render after a toggle the store did not take over
C2_Witness ==
    /\ phase = "idle"
    /\ lastEvent = "toggle"
    /\ toggledTo = "true"
    /\ ~props._enabled
    /\ view.rendered

\* C3: a toggle with local enabled = v leaves local enabled = not-v, emits
\* exactly one analytics event encoding not-v as "true"/"false" and makes
\* exactly one dispatch carrying not-v.
C3_ToggleSetsLocalEnabled ==
    [][/\ ToggleStep =>
            /\ Len(SelectSeq(Added, IsAnalytics)) = 1
            /\ Len(SelectSeq(Added, IsDispatch)) = 1
            /\ \A i \in 1..Len(Added) :
                 /\ IsAnalytics(Added[i]) =>
                        Added[i].event = "e2ee.enabled." \o String(~state.enabled)
                 /\ IsDispatch(Added[i]) =>
                        Added[i].action.enabled = ~state.enabled
       /\ (RenderStep /\ lastEvent = "toggle") =>
            state'.enabled = (toggledTo = "true")]_vars

\* C4: within one toggle the state update is issued first, then the analytics
\* event, then the dispatch; both carry the same value; no dispatch without
\* the analytics event of the same toggle before it.
C4_ToggleOrder ==
    \A i \in 1..Len(trace) :
        /\ IsDispatch(trace[i]) =>
              /\ i >= 3
              /\ IsAnalytics(trace[i - 1])
              /\ trace[i - 1].event
                    = "e2ee.enabled." \o String(trace[i].action.enabled)
              /\ trace[i - 2]
                    = [kind |-> "setState",
                       partial |-> [enabled |-> trace[i].action.enabled]]
        /\ IsAnalytics(trace[i]) =>
              /\ i + 1 <= Len(trace)
              /\ IsDispatch(trace[i + 1])

\* two toggles done, one to true and one to false
C4_Witness ==
    /\ \E i \in 1..Len(trace) :
          IsDispatch(trace[i]) /\ trace[i].action.enabled
    /\ \E i \in 1..Len(trace) :
          IsDispatch(trace[i]) /\ ~trace[i].action.enabled

\* C5: expand is false at creation, true after the first expand, and stays
\* true under every later event; an expand when it is already true changes
\* neither the state nor the rendered output.
C5_ExpandMonotone ==
    /\ ~state.expand
    /\ [][/\ state.expand => state'.expand
          /\ (RenderStep /\ "expand" \in DOMAIN pending) => state'.expand
          /\ (ExpandStep /\ state.expand) => state' = state /\ Ports(trace') = Ports(trace)
          /\ (RenderStep /\ lastEvent \in {"expand", "keypress"} /\ state.expand) =>
                (state' = state /\ view' = view)]_vars

\* expanded twice, then toggled, still expanded
C5_Witness ==
    /\ phase = "idle"
    /\ state.expand
    /\ lastEvent = "toggle"
    /\ Len(SelectSeq(trace, IsExpandCall)) >= 2

\* C6: a key press expands and has its default suppressed iff the key is
\* "Enter" or " "; any other key does neither and leaves the state alone.
C6_KeyPress ==
    [][KeyStep =>
         LET hit == lastKey'.key \in {"Enter", " "}
         IN  /\ lastKey'.defaultPrevented <=> hit
             /\ (Added = <<[kind |-> "setState", partial |-> [expand |-> TRUE]]>>) <=> hit
             /\ (phase' = "update") <=> hit
             /\ ~hit => /\ Added = <<>>
                        /\ state' = state
                        /\ pending' = pending
                        /\ view' = view]_vars

\* the description expanded by the space key alone
C6_Witness ==
    /\ phase = "idle"
    /\ lastKey = [key |-> " ", defaultPrevented |-> TRUE]
    /\ state.expand
    /\ Len(trace) = 1

\* C7: with expand false the rendered text is the first 100 characters of
\* the description (all of it when shorter) and the read-more span is there;
\* with expand true the text is the whole description and the span is not.
C7_Description ==
    phase = "idle" =>
        /\ view.readMore = ~state.expand
        /\ ~state.expand =>
              /\ Len(view.text) = Min(100, Len(t))
              /\ \A i \in 1..Len(view.text) : view.text[i] = t[i]
        /\ state.expand => view.text = t

\* a description longer than 100 characters rendered truncated
C7_Witness ==
    /\ phase = "idle"
    /\ ~state.expand
    /\ Len(t) > 100
    /\ Len(view.text) = 100
    /\ view.readMore

\* C8: at every render the warning is there iff _everyoneSupportE2EE is
\* false, whatever enabled and expand are.
C8_Warning ==
    phase = "idle" => (view.warning <=> ~props._everyoneSupportE2EE)

\* the warning shown with the switch on and the description expanded
C8_Witness ==
    /\ phase = "idle"
    /\ view.warning
    /\ state.enabled
    /\ state.expand

\* C9: the constructed state is {enabled: false, expand: false} whatever the
\* props, and the first render already shows the external enabled value; no
\* render shows false against an external true.
C9_FirstRender ==
    /\ phase = "constructed" =>
          /\ state = [enabled |-> FALSE, expand |-> FALSE]
          /\ ~view.rendered
    /\ (phase = "idle" /\ lastEvent = "mount") =>
          /\ view.rendered
          /\ view.switchValue = props._enabled
    /\ phase = "idle" => ~(props._enabled /\ ~view.switchValue)

\* the first render of a component created with _enabled = true
C9_Witness ==
    /\ phase = "idle"
    /\ lastEvent = "mount"
    /\ props._enabled
    /\ view.switchValue

\* C10: expand leaves enabled alone and reports nothing; toggle leaves expand
\* alone; a prop update leaves expand alone and reports nothing; only toggle
\* produces analytics events and dispatches.
C10_Frame ==
    [][/\ ExpandStep =>
            /\ state' = state
            /\ "enabled" \notin DOMAIN pending'
            /\ Ports(trace') = Ports(trace)
            /\ redux' = redux
       /\ (RenderStep /\ lastEvent \in {"expand", "keypress"}) =>
            state'.enabled = state.enabled
       /\ ToggleStep =>
            /\ state' = state
            /\ "expand" \notin DOMAIN pending'
       /\ StoreStep =>
            /\ state' = state
            /\ pending' = pending
            /\ trace' = trace
       /\ (RenderStep /\ lastEvent \in {"toggle", "storeEnabled", "storeEveryoneSupport"}) =>
            /\ state'.expand = state.expand
            /\ trace' = trace
       /\ Ports(trace') # Ports(trace) => ToggleStep]_vars

\* an expanded description kept through a change of the external enabled value
C10_Witness ==
    /\ phase = "idle"
    /\ state.expand
    /\ lastEvent = "storeEnabled"
    /\ state.enabled
    /\ Ports(trace) = <<>>

====
